---- MODULE Spec2Model ----
(***************************************************************************)
(* Model of spritegen.py: the batch scan of the input directory, the       *)
(* per-video handling in SpriteGen.generate_spritesheet, the quality       *)
(* selector, the grid planner, the sample rate and the output naming.      *)
(*                                                                         *)
(* Strings are sequences of one-character strings, so that rsplit(".")     *)
(* and the f-string formatting are computed, not assumed.  A duration is   *)
(* a rational <<num, den>>; <<0, 0>> stands for a float NaN.  The float    *)
(* quotient frames / duration is modelled by the exact rational quotient.  *)
(***************************************************************************)
EXTENDS Integers, Sequences, FiniteSets, TLC

\* ---------------------------------------------------------------- bounds
MaxFiles == 3
MaxDurNum == 9
MaxDurDen == 3

\* ------------------------------------------------------- strings as tuples
Dot == "."

DigitChars == <<"0", "1", "2", "3", "4", "5", "6", "7", "8", "9">>

RECURSIVE NatDigits(_)
NatDigits(n) ==
    IF n < 10 THEN <<DigitChars[n + 1]>>
    ELSE NatDigits(n \div 10) \o <<DigitChars[(n % 10) + 1]>>

\* f"{n}" for a Python int
FormatInt(n) == IF n < 0 THEN <<"-">> \o NatDigits(-n) ELSE NatDigits(n)

\* str.rsplit(".") without maxsplit: every dot separates, left to right order
RECURSIVE SplitFrom(_, _, _)
SplitFrom(s, cur, acc) ==
    IF s = <<>> THEN Append(acc, cur)
    ELSE IF Head(s) = Dot THEN SplitFrom(Tail(s), <<>>, Append(acc, cur))
    ELSE SplitFrom(Tail(s), Append(cur, Head(s)), acc)

RSplit(s) == SplitFrom(s, <<>>, <<>>)

\* os.path.join(dir, name)
PathJoin(dir, name) == dir \o <<"/">> \o name

InputDir == <<"i", "n", "p", "u", "t">>
OutputDir == <<"o", "u", "t", "p", "u", "t">>

VIDEO_FORMATS == { <<"m", "p", "4">>, <<"w", "e", "b", "m">> }

\* ------------------------------------------------------------ directory
\* entries os.listdir("input") may return
Names ==
    { <<"c", ".", "m", "p", "4">>,
      <<"d", ".", "w", "e", "b", "m">>,
      <<"c", ".", "m", "p", "4", ".", "x">>,
      <<"a", ".", "b", ".", "m", "p", "4">>,
      <<"n", ".", "t", "x", "t">>,
      <<"r">> }

RECURSIVE SeqsUpTo(_)
SeqsUpTo(k) ==
    IF k = 0 THEN { <<>> }
    ELSE LET shorter == SeqsUpTo(k - 1)
         IN  shorter \cup { Append(s, e) : s \in { t \in shorter : Len(t) = k - 1 }, e \in Names }

IsListing(s) == \A a, b \in 1..Len(s) : a # b => s[a] # s[b]

Listings == { s \in SeqsUpTo(MaxFiles) : IsListing(s) }

\* ---------------------------------------------------------- probe results
FrameCounts == { -1, 0, 5, 10, 11, 50, 51 }

NaN == <<0, 0>>

RECURSIVE GCD(_, _)
GCD(a, b) == IF b = 0 THEN a ELSE GCD(b, a % b)

Durations ==
    { <<p, q>> : p \in 0..MaxDurNum, q \in 1..MaxDurDen } \cup { NaN }

ReducedDurations ==
    { d \in Durations : d = NaN \/ (d[1] = 0 /\ d[2] = 1) \/ (d[1] > 0 /\ GCD(d[1], d[2]) = 1) }

ProbeFailures == { "probe_raises", "no_video_stream", "no_nb_frames" }

\* ----------------------------------------------------- calculate_quality
None == [none |-> TRUE]

quality_map ==
    << [name |-> "Quality",  unbounded |-> FALSE, threshold |-> 10, frames |-> 4,  frame_size |-> 512],
       [name |-> "Balance",  unbounded |-> FALSE, threshold |-> 50, frames |-> 16, frame_size |-> 256],
       [name |-> "Fluidity", unbounded |-> TRUE,  threshold |-> 0,  frames |-> 64, frame_size |-> 128] >>

WithinThresholdStrict(n, tier) == tier.unbounded \/ n < tier.threshold

\* total_frames <= threshold, the threshold of the last tier being float('inf')
WithinThreshold(n, tier) == tier.unbounded \/ n <= tier.threshold

RECURSIVE QualityFrom(_, _)
QualityFrom(n, k) ==
    IF k > Len(quality_map) THEN None
    ELSE IF WithinThreshold(n, quality_map[k])
         THEN [frames |-> quality_map[k].frames, frame_size |-> quality_map[k].frame_size]
         ELSE QualityFrom(n, k + 1)

calculate_quality(total_frames) == QualityFrom(total_frames, 1)

\* ------------------------------------------------------------ grid planner
\* int(math.sqrt(frames)) for frames >= 0
RECURSIVE IntSqrtFrom(_, _)
IntSqrtFrom(n, c) == IF (c + 1) * (c + 1) > n THEN c ELSE IntSqrtFrom(n, c + 1)

HalfOf(frames) == frames \div 2

Cols(frames) == IntSqrtFrom(frames, 0)

\* math.ceil(frames / cols), cols > 0
Rows(frames, cols) == IF frames % cols = 0 THEN frames \div cols ELSE (frames \div cols) + 1

\* round(a / b) with b > 0, a >= 0, ties to the nearest integer above
RoundHalfUp(a, b) == (2 * a + b) \div (2 * b)

\* Python round(a / b) with b > 0, a >= 0: ties go to the even neighbour
RoundHalfEven(a, b) ==
    LET fl == a \div b
        rem == a % b
    IN  IF 2 * rem < b THEN fl
        ELSE IF 2 * rem > b THEN fl + 1
        ELSE IF fl % 2 = 0 THEN fl ELSE fl + 1

\* round(frames / duration) for a positive duration num/den
FrameRate(frames, duration) == RoundHalfEven(frames * duration[2], duration[1])

\* ------------------------------------------------------------ output name
\* self.video_file.rsplit(".")[0]
Basename(video_file) == RSplit(video_file)[1]

_output_name(video_file, framerate, rows, cols) ==
    Basename(video_file) \o <<"_">> \o FormatInt(framerate) \o <<"f", "p", "s", "_">>
        \o FormatInt(rows * cols) \o <<".", "p", "n", "g">>

\* the ffmpeg pipeline of one call, as handed to the engine; every field
\* is taken from the arguments passed
BadRenderRequest(video_file, rate, size, cols, rows, out) ==
    [ input   |-> PathJoin(InputDir, video_file),
      fps     |-> FormatInt(cols * rows),
      scale   |-> <<size, size>>,
      tile    |-> FormatInt(cols) \o <<"x">> \o FormatInt(rows),
      output  |-> out,
      vframes |-> 1 ]

RenderRequest(video_file, rate, size, cols, rows, out) ==
    [ input   |-> PathJoin(InputDir, video_file),
      fps     |-> FormatInt(rate),
      scale   |-> <<size, size>>,
      tile    |-> FormatInt(cols) \o <<"x">> \o FormatInt(rows),
      output  |-> out,
      vframes |-> 1 ]

\* ------------------------------------------------------------------ state
VARIABLES
    listing,        \* os.listdir("input")
    i,              \* position of the for loop in the listing
    pc,             \* "scan", "call", "returned", "caught", "done", "aborted"
    exc,            \* exception that left the last step, "none" otherwise
    video_file,     \* SpriteGen.video_file of the call in progress
    state,          \* per-video state machine
    total_frames, duration,
    frames, frame_size, cols, rows, new_frame_rate, output_name,
    request,        \* the pipeline handed to the engine by this call
    lines,          \* console lines printed for the video in progress
    trail,          \* states the video in progress went through, in order
    outcomes        \* per listing entry already passed: how it ended

vars == << listing, i, pc, exc, video_file, state, total_frames, duration,
           frames, frame_size, cols, rows, new_frame_rate, output_name,
           request, lines, trail, outcomes >>

planVars == << frames, frame_size, cols, rows, new_frame_rate, output_name >>
probeVars == << total_frames, duration >>

Terminal == { "rendered", "probe_failed", "render_failed" }

NoPlan ==
    /\ frames' = None /\ frame_size' = None /\ cols' = None /\ rows' = None
    /\ new_frame_rate' = None /\ output_name' = None

Init ==
    /\ listing \in Listings
    /\ i = 1
    /\ pc = "scan"
    /\ exc = "none"
    /\ video_file = None
    /\ state = "none"
    /\ total_frames = None /\ duration = None
    /\ frames = None /\ frame_size = None /\ cols = None /\ rows = None
    /\ new_frame_rate = None /\ output_name = None
    /\ request = None
    /\ lines = <<>>
    /\ trail = <<>>
    /\ outcomes = <<>>

\* ------------------------------------------------------- __main__ for loop
\* file.rsplit(".")[1] not in VIDEO_FORMATS: continue
ScanSkip ==
    /\ pc = "scan" /\ i <= Len(listing)
    /\ Len(RSplit(listing[i])) >= 2
    /\ RSplit(listing[i])[2] \notin VIDEO_FORMATS
    /\ i' = i + 1
    /\ outcomes' = Append(outcomes, "skipped")
    /\ UNCHANGED << listing, pc, exc, video_file, state, trail, probeVars, planVars, request, lines >>

\* file.rsplit(".")[1] on a name without a dot: IndexError, not caught
ScanIndexError ==
    /\ pc = "scan" /\ i <= Len(listing)
    /\ Len(RSplit(listing[i])) < 2
    /\ pc' = "aborted"
    /\ exc' = "IndexError"
    /\ UNCHANGED << listing, i, video_file, state, trail, probeVars, planVars, request, lines, outcomes >>

\* SpriteGen(video_file=file).generate_spritesheet() is entered
ScanCall ==
    /\ pc = "scan" /\ i <= Len(listing)
    /\ Len(RSplit(listing[i])) >= 2
    /\ RSplit(listing[i])[2] \in VIDEO_FORMATS
    /\ pc' = "call"
    /\ video_file' = listing[i]
    /\ state' = "start"
    /\ trail' = Append(trail, "start")
    /\ UNCHANGED << listing, i, exc, probeVars, planVars, request, lines, outcomes >>

\* the listing is exhausted
ScanDone ==
    /\ pc = "scan" /\ i > Len(listing)
    /\ pc' = "done"
    /\ UNCHANGED << listing, i, exc, video_file, state, trail, probeVars, planVars, request, lines, outcomes >>

\* ------------------------------------------------- generate_spritesheet
\* _get_framecount returns (int(nb_frames), float(duration))
ProbeOk ==
    /\ pc = "call" /\ state = "start"
    /\ \/ \E n \in FrameCounts, d \in ReducedDurations \ { NaN } :
             /\ total_frames' = n
             /\ duration' = d
       \/ \E n \in FrameCounts :
             /\ total_frames' = n
             /\ duration' = NaN
    /\ state' = "probed"
    /\ trail' = Append(trail, "probed")
    /\ UNCHANGED << listing, i, pc, exc, video_file, planVars, request, lines, outcomes >>

\* _get_framecount raises; except Exception prints and returns
ProbeFail ==
    /\ pc = "call" /\ state = "start"
    /\ \E cause \in ProbeFailures :
          lines' = Append(lines, [kind |-> "error", stage |-> "probe", text |-> cause])
    /\ state' = "probe_failed"
    /\ trail' = Append(trail, "probe_failed")
    /\ pc' = "returned"
    /\ UNCHANGED << listing, i, exc, video_file, probeVars, planVars, request, outcomes >>

\* lines 43-50 with a usable duration
Plan ==
    /\ pc = "call" /\ state = "probed"
    /\ duration # NaN /\ duration[1] # 0
    /\ LET q == calculate_quality(total_frames)
           c == Cols(q.frames)
           r == Rows(q.frames, c)
           rate == FrameRate(q.frames, duration)
       IN  /\ frames' = q.frames
           /\ frame_size' = q.frame_size
           /\ cols' = c
           /\ rows' = r
           /\ new_frame_rate' = rate
           /\ output_name' = PathJoin(OutputDir, _output_name(video_file, rate, r, c))
    /\ state' = "planned"
    /\ trail' = Append(trail, "planned")
    /\ UNCHANGED << listing, i, pc, exc, video_file, probeVars, request, lines, outcomes >>

\* frames / duration with duration == 0.0: ZeroDivisionError leaves
\* generate_spritesheet and is not a ValueError, so it leaves the loop too
PlanZeroDivision ==
    /\ pc = "call" /\ state = "probed"
    /\ duration # NaN /\ duration[1] = 0
    /\ exc' = "ZeroDivisionError"
    /\ pc' = "aborted"
    /\ UNCHANGED << listing, i, video_file, state, trail, probeVars, planVars, request, lines, outcomes >>

\* round(nan): ValueError leaves generate_spritesheet; the loop's
\* except ValueError prints str(value_error)
PlanValueError ==
    /\ pc = "call" /\ state = "probed"
    /\ duration = NaN
    /\ exc' = "ValueError"
    /\ pc' = "caught"
    /\ lines' = Append(lines, [kind |-> "message", stage |-> "main", text |-> "ValueError"])
    /\ UNCHANGED << listing, i, video_file, state, trail, probeVars, planVars, request, outcomes >>

\* the pipeline runs; print "Sprite sheet saved to ..."
RenderOk ==
    /\ pc = "call" /\ state = "planned"
    /\ request' = RenderRequest(video_file, new_frame_rate, frame_size, cols, rows, output_name)
    /\ lines' = Append(lines, [kind |-> "saved", stage |-> "render", text |-> output_name])
    /\ state' = "rendered"
    /\ trail' = Append(trail, "rendered")
    /\ pc' = "returned"
    /\ UNCHANGED << listing, i, exc, video_file, probeVars, planVars, outcomes >>

\* the pipeline raises ffmpeg.Error; print "Error generating sprite sheet: ..."
RenderFail ==
    /\ pc = "call" /\ state = "planned"
    /\ request' = RenderRequest(video_file, new_frame_rate, frame_size, cols, rows, output_name)
    /\ lines' = Append(lines, [kind |-> "error", stage |-> "render", text |-> "ffmpeg.Error"])
    /\ state' = "render_failed"
    /\ trail' = Append(trail, "render_failed")
    /\ pc' = "returned"
    /\ UNCHANGED << listing, i, exc, video_file, probeVars, planVars, outcomes >>

\* the loop moves to the next entry after a call that returned or whose
\* ValueError was caught
NextFile ==
    /\ pc \in { "returned", "caught" }
    /\ outcomes' = Append(outcomes, IF pc = "caught" THEN "value_error" ELSE state)
    /\ i' = i + 1
    /\ pc' = "scan"
    /\ exc' = "none"
    /\ video_file' = None
    /\ state' = "none"
    /\ total_frames' = None /\ duration' = None
    /\ NoPlan
    /\ request' = None
    /\ lines' = <<>>
    /\ trail' = <<>>
    /\ UNCHANGED listing

Next ==
    \/ ScanSkip
    \/ ScanIndexError
    \/ ScanCall
    \/ ScanDone
    \/ ProbeOk
    \/ ProbeFail
    \/ Plan
    \/ PlanZeroDivision
    \/ PlanValueError
    \/ RenderOk
    \/ RenderFail
    \/ NextFile

Spec == Init /\ [][Next]_vars

\* ================================================================ properties
Planned == state \in { "planned", "rendered", "render_failed" }

Invoked == state \in { "rendered", "render_failed" }

\* generate_spritesheet has returned or raised for the video in progress
Stopped ==
    \/ pc \in { "returned", "caught" }
    \/ pc = "aborted" /\ state # "none"

Abs(x) == IF x < 0 THEN -x ELSE x

\* the extension of a name: the text after its last dot, None without a dot
Extension(name) ==
    LET parts == RSplit(name)
    IN  IF Len(parts) < 2 THEN None ELSE parts[Len(parts)]

RECURSIVE JoinDots(_)
JoinDots(parts) ==
    IF Len(parts) = 1 THEN parts[1]
    ELSE parts[1] \o <<Dot>> \o JoinDots(Tail(parts))

\* a name with only its extension removed
Stem(name) ==
    LET parts == RSplit(name)
    IN  IF Len(parts) < 2 THEN name ELSE JoinDots(SubSeq(parts, 1, Len(parts) - 1))

\* entry j of the listing was passed to generate_spritesheet
Called(j) ==
    \/ j <= Len(outcomes) /\ outcomes[j] # "skipped"
    \/ j = i /\ state # "none"

\* entry j passes the test the scan applies
Accepted(j) ==
    /\ Len(RSplit(listing[j])) >= 2
    /\ RSplit(listing[j])[2] \in VIDEO_FORMATS

\* C1: calculate_quality returns a tier for every integer frame count:
\* n <= 10 gives (4, 512), 10 < n <= 50 gives (16, 256), n > 50 gives
\* (64, 128), negative counts and 0 included; it never returns None.
C1_QualityTiers ==
    /\ state = "probed" => calculate_quality(total_frames) # None
    /\ Planned =>
          /\ total_frames <= 10 => frames = 4 /\ frame_size = 512
          /\ (total_frames > 10 /\ total_frames <= 50) => frames = 16 /\ frame_size = 256
          /\ total_frames > 50 => frames = 64 /\ frame_size = 128

C1_Witness == state = "planned" /\ total_frames = 10 /\ frames = 4

\* C2: a probe failure or a render failure on one video does not raise out
\* of generate_spritesheet, and every later entry the scan accepts is still
\* passed to generate_spritesheet by the time the run ends.
C2_FailureNeverAborts ==
    /\ state \in { "probe_failed", "render_failed" } => exc = "none" /\ pc = "returned"
    /\ pc \in { "done", "aborted" } =>
          \A k \in 1..Len(outcomes) :
              outcomes[k] \in { "probe_failed", "render_failed" } =>
                  \A j \in (k + 1)..Len(listing) : Accepted(j) => Called(j)

\* C3: the handling of a video follows start -> probed -> planned ->
\* rendered, start -> probe_failed or planned -> render_failed only, and
\* when it stops it is in rendered, probe_failed or render_failed.
C3_StateMachine ==
    /\ trail \in { <<>>, <<"start">>, <<"start", "probed">>, <<"start", "probe_failed">>,
                   <<"start", "probed", "planned">>,
                   <<"start", "probed", "planned", "rendered">>,
                   <<"start", "probed", "planned", "render_failed">> }
    /\ Stopped => state \in Terminal

\* C4: an entry is passed to generate_spritesheet exactly when its
\* extension is mp4 or webm, every other entry is skipped, and the scan
\* gets through the whole listing whatever the names are.
C4_ScanByExtension ==
    /\ exc # "IndexError"
    /\ \A k \in 1..Len(outcomes) :
          (outcomes[k] # "skipped") <=> (Extension(listing[k]) \in VIDEO_FORMATS)
    /\ pc = "call" => Extension(video_file) \in VIDEO_FORMATS
    /\ pc = "done" => Len(outcomes) = Len(listing)

\* C5: columns = floor(sqrt(sample)) >= 1, rows = ceil(sample / columns),
\* columns * rows >= sample, and the three tiers give exactly 2x2, 4x4, 8x8.
C5_GridPlanner ==
    Planned =>
        /\ cols >= 1
        /\ cols * cols <= frames /\ (cols + 1) * (cols + 1) > frames
        /\ rows * cols >= frames /\ (rows - 1) * cols < frames
        /\ cols * rows = frames
        /\ <<frames, cols, rows>> \in { <<4, 2, 2>>, <<16, 4, 4>>, <<64, 8, 8>> }

C5_Witness == state = "planned" /\ frames = 64 /\ cols = 8 /\ rows = 8

\* C6: for a duration d > 0 the sample rate is an integer nearest to
\* sample / d; when sample / d is exactly halfway between two integers the
\* rate is the even one of the two; sample 16 and d = 8 give rate 2.
C6_NearestInteger ==
    Planned =>
        LET num == duration[1]
            den == duration[2]
            twice == 2 * Abs(new_frame_rate * num - frames * den)
        IN  /\ num > 0 /\ den > 0
            /\ twice <= num
            /\ twice = num => new_frame_rate % 2 = 0
            /\ (frames = 16 /\ duration = <<8, 1>>) => new_frame_rate = 2

\* sample / d = 3/2 is a tie, rounded to 2
C6_Witness ==
    /\ state = "planned" /\ frames = 4 /\ duration = <<8, 3>> /\ new_frame_rate = 2

\* C7: the output name is '<basename>_<rate>fps_<rows*cols>.png' where
\* basename is the source file name with only its extension removed.
C7_OutputName ==
    Planned =>
        output_name = PathJoin(OutputDir,
            Stem(video_file) \o <<"_">> \o FormatInt(new_frame_rate) \o <<"f", "p", "s", "_">>
                \o FormatInt(rows * cols) \o <<".", "p", "n", "g">>)

\* C8: whenever the renderer is invoked, its fps is the sample rate, its
\* scale the tile size in both dimensions, its tile grid columns x rows,
\* it asks for one frame and writes to output/<_output_name>; a 5-frame
\* 2.5 s video gives sample 4, size 512, 2x2, rate 2, '<name>_2fps_4.png'.
C8_RenderRequest ==
    /\ request # None => Invoked
    /\ Invoked =>
          /\ request.input = PathJoin(InputDir, video_file)
          /\ request.fps = FormatInt(new_frame_rate)
          /\ request.scale = <<frame_size, frame_size>>
          /\ request.tile = FormatInt(cols) \o <<"x">> \o FormatInt(rows)
          /\ request.vframes = 1
          /\ request.output = PathJoin(OutputDir, _output_name(video_file, new_frame_rate, rows, cols))
          /\ (total_frames = 5 /\ duration = <<5, 2>>) =>
                /\ frames = 4
                /\ request.fps = <<"2">>
                /\ request.scale = <<512, 512>>
                /\ request.tile = <<"2", "x", "2">>
                /\ request.output = PathJoin(OutputDir,
                        Basename(video_file) \o <<"_", "2", "f", "p", "s", "_", "4", ".", "p", "n", "g">>)

C8_Witness == state = "rendered" /\ total_frames = 5 /\ duration = <<5, 2>> /\ request # None

\* C9: for each video handled exactly one line is printed, the 'saved'
\* line exactly when the renderer was invoked and succeeded and an
\* 'Error' line otherwise; no renderer call after a probe failure.
C9_OneLinePerVideo ==
    /\ Stopped =>
          /\ Len(lines) = 1
          /\ lines[1].kind \in { "saved", "error" }
          /\ lines[1].kind = "saved" <=> state = "rendered"
    /\ state = "probe_failed" => request = None
    /\ \A k \in 1..Len(lines) : lines[k].kind = "saved" => state = "rendered"

\* C10: the sample rate handed to the fps filter is at least 1 for every
\* probed frame count and every duration d > 0.
C10_PositiveRate ==
    Invoked => (duration[1] > 0 /\ duration[2] > 0 => new_frame_rate >= 1)

====
